---- MODULE Spec2Model ----
(***************************************************************************)
(* Model of template.go (package triangle_on_sonar_finder): the Sobel edge *)
(* detector, template construction and the sliding-window NCC search.      *)
(*                                                                         *)
(* Numbers.  TLC has integers only, so every float of the program is held  *)
(* exactly, as an integer in a stated unit:                                *)
(*   - a gray sample is the integer 0..255 the program converts it to;     *)
(*   - a cell of sobelEdge's result holds the SQUARE of the float64 the    *)
(*     program stores (the program stores math.Sqrt(e), the model e);      *)
(*   - a kernel cell holds N times the program's value, N = height*width   *)
(*     (the mean is sum/N, so N*(v - mean) = N*v - sum is an integer);     *)
(*   - a correlation is the pair num, den2 standing for num / sqrt(den2);  *)
(*   - a threshold or a scale is a fraction <<numerator, denominator>>.    *)
(* float32/float64 rounding is not modelled: arithmetic is exact.          *)
(* Grids are sequences of rows; the program's 0-based cell [y][x] is the   *)
(* model's g[y + 1][x + 1].                                                *)
(***************************************************************************)
EXTENDS Integers, Sequences, FiniteSets

VARIABLES pc,             \* which call has run: "start", "done"
          gray_img,       \* sobelEdge: the grayscale grid passed in
          sobelThreshold, \* sobelEdge: the threshold passed in
          edge,           \* sobelEdge: the grid returned
          img,            \* NewTemplateFromImage: size of the image passed in
          scale,          \* NewTemplateFromImage / FindMatch: the scale passed in
          resized,        \* NewTemplateFromImage: gray samples of the resized image
          newWidth,       \* NewTemplateFromImage: the width asked of resizeImage
          tmpl,           \* NewTemplateFromImage: <<the template returned>>, <<>> for nil
          err,            \* NewTemplateFromImage: the error returned, "" for nil
          t,              \* FindMatch: the receiver
          image,          \* FindMatch: the scene grid
          stride,         \* FindMatch: the stride
          threshold,      \* FindMatch: the threshold
          matches,        \* FindMatch: the slice returned
          trace           \* FindMatch: what the call did (see NoTrace)

vars == <<pc, gray_img, sobelThreshold, edge, img, scale, resized, newWidth,
          tmpl, err, t, image, stride, threshold, matches, trace>>

-----------------------------------------------------------------------------
(* Bounds of the model *)

MaxSobelH == 4
MaxSobelW == 4

-----------------------------------------------------------------------------
(* Grids *)

Height(g) == Len(g)
Width(g) == IF Len(g) = 0 THEN 0 ELSE Len(g[1])
At(g, y, x) == g[y + 1][x + 1]

RECURSIVE SeqSum(_)
SeqSum(s) == IF s = <<>> THEN 0 ELSE Head(s) + SeqSum(Tail(s))

\* the sum of every cell of a grid
GridSum(g) == SeqSum([y \in 1..Len(g) |-> SeqSum(g[y])])

Abs(n) == IF n < 0 THEN -n ELSE n

\* floor of the square root, by bisection on lo*lo <= n < hi*hi
RECURSIVE IsqrtIn(_, _, _)
IsqrtIn(n, lo, hi) ==
    IF hi - lo <= 1 THEN lo
    ELSE LET mid == (lo + hi) \div 2
         IN  IF mid * mid <= n THEN IsqrtIn(n, mid, hi) ELSE IsqrtIn(n, lo, mid)

Isqrt(n) == IsqrtIn(n, 0, 46341)

\* Go's conversion to int16 of an integer value: two's complement, 16 bits
Int16(v) == ((v + 32768) % 65536) - 32768

-----------------------------------------------------------------------------
(* sobelEdge *)

\* a slip: the rows of gy copied into gx
gxCopiedFromGy == << <<-1, -2, -1>>, <<0, 0, 0>>, <<1, 2, 1>> >>

gx == << <<-1, 0, 1>>, <<-2, 0, 2>>, <<-1, 0, 1>> >>
gy == << <<-1, -2, -1>>, <<0, 0, 0>>, <<1, 2, 1>> >>

\* the nine products of one Sobel kernel k with the 3x3 block around (y, x)
SobelSum(k, g, y, x) ==
    SeqSum([n \in 1..9 |->
        LET ky == ((n - 1) \div 3) - 1
            kx == ((n - 1) % 3) - 1
        IN  k[ky + 2][kx + 2] * At(g, y + ky, x + kx)])

\* sx*sx + sy*sy at an interior cell: the square of the gradient magnitude
MagnitudeSquared(g, y, x) ==
    LET sx == SobelSum(gx, g, y, x)
        sy == SobelSum(gy, g, y, x)
    IN  sx * sx + sy * sy

\* the loop bounds: y in 1..height-2, x in 1..width-2
Interior(width, height, y, x) ==
    /\ 1 <= y /\ y < height - 1
    /\ 1 <= x /\ x < width - 1

\* a slip: <= for <
BelowOrAtThreshold(e, thr) == Int16(Isqrt(e)) <= thr

\* int16(edge[y][x]) < threshold, for edge[y][x] = math.Sqrt(e)
BelowThreshold(e, thr) == Int16(Isqrt(e)) < thr

sobelEdge(g, width, height, thr) ==
    [yy \in 1..height |-> [xx \in 1..width |->
        IF Interior(width, height, yy - 1, xx - 1)
        THEN LET e == MagnitudeSquared(g, yy - 1, xx - 1)
             IN  IF BelowThreshold(e, thr) THEN 0 ELSE e
        ELSE 0]]

-----------------------------------------------------------------------------
(* Inputs of sobelEdge: an h x w grid of level a, with the cells of rows   *)
(* r.. and columns c.. at level b.  r = 0 gives a vertical edge before     *)
(* column c, c = 0 a horizontal edge, r = h or c = w a uniform grid.       *)

GrayLevels == {0, 10, 20, 255}
SobelThresholds == {0, 40, 50}

RegionImage(h, w, r, c, a, b) ==
    [yy \in 1..h |-> [xx \in 1..w |->
        IF yy - 1 >= r /\ xx - 1 >= c THEN b ELSE a]]

GrayImages ==
    {RegionImage(h, w, r, c, a, b) :
        h \in 0..MaxSobelH, w \in 0..MaxSobelW,
        r \in 0..MaxSobelH, c \in 0..MaxSobelW,
        a \in GrayLevels, b \in GrayLevels}

Idle == <<>>

InitSobel ==
    /\ pc = "start"
    /\ gray_img \in GrayImages
    /\ sobelThreshold \in SobelThresholds
    /\ edge = Idle
    /\ img = Idle /\ scale = Idle /\ resized = Idle /\ newWidth = Idle
    /\ tmpl = Idle /\ err = Idle
    /\ t = Idle /\ image = Idle /\ stride = Idle /\ threshold = Idle
    /\ matches = Idle /\ trace = Idle

CallSobelEdge ==
    /\ pc = "start"
    /\ edge' = sobelEdge(gray_img, Width(gray_img), Height(gray_img), sobelThreshold)
    /\ pc' = "done"
    /\ UNCHANGED <<gray_img, sobelThreshold, img, scale, resized, newWidth,
                   tmpl, err, t, image, stride, threshold, matches, trace>>

NextSobel == CallSobelEdge

SpecSobel == InitSobel /\ [][NextSobel]_vars

-----------------------------------------------------------------------------
(* NewTemplateFromImage *)

\* a slip: rounding to nearest where the conversion truncates
NewWidthRounded(X, sc) == (2 * X * sc[1] + sc[2]) \div (2 * sc[2])

\* uint(float64(originalSize.X) * scale): the conversion truncates
NewWidth(X, sc) == (X * sc[1]) \div sc[2]

TemplateSobelThreshold == 50

\* math.Sqrt(e) where it is exact (the inputs are chosen so that it is)
Root(e) == Isqrt(e)
ExactRoots(e) ==
    \A yy \in 1..Len(e) : \A xx \in 1..Len(e[yy]) :
        Root(e[yy][xx]) * Root(e[yy][xx]) = e[yy][xx]

\* steps 4 and on: subtract the mean, sum the squares, build the value.
\* edgeMatrix holds the magnitudes; the kernel is held times N, sumKernel
\* times N*N.
BuildTemplate(edgeMatrix, width, height, originalSize) ==
    LET N == height * width
        kernelSum == GridSum(edgeMatrix)
        edgeKernel == [yy \in 1..height |-> [xx \in 1..width |->
                          N * edgeMatrix[yy][xx] - kernelSum]]
        sumKernel == GridSum([yy \in 1..height |-> [xx \in 1..width |->
                          edgeKernel[yy][xx] * edgeKernel[yy][xx]]])
    IN  [kernel |-> edgeKernel, kernelWidth |-> width, kernelHeight |-> height,
         sumKernel |-> sumKernel, originalSize |-> originalSize]

\* rz: the gray samples of what resizeImage returned (the resizer and the
\* gray conversion are library code).  The result is the pair returned and
\* the width that was asked of resizeImage.
NewTemplateFromImage(im, sc, rz) ==
    LET originalSize == im
        nw == NewWidth(originalSize.X, sc)
        width == Width(rz)
        height == Height(rz)
    IN  IF width # nw
        THEN [tmpl |-> <<>>, err |-> "width after resizing does not match expected newWidth",
              newWidth |-> nw]
        ELSE LET edgeMatrix == sobelEdge(rz, width, height, TemplateSobelThreshold)
                 magnitudes == [yy \in 1..height |-> [xx \in 1..width |->
                                   Root(edgeMatrix[yy][xx])]]
             IN  [tmpl |-> <<BuildTemplate(magnitudes, width, height, originalSize)>>,
                  err |-> "", newWidth |-> nw]

-----------------------------------------------------------------------------
(* Inputs of NewTemplateFromImage *)

MaxOrigW == 5
MaxOrigH == 2
MaxResizedH == 3
MaxResizedW == 4

Scales == {<<1, 1>>, <<3, 4>>, <<1, 2>>}
TemplateLevels == {0, 20, 100}

Images == {[X |-> x, Y |-> y] : x \in 0..MaxOrigW, y \in 1..MaxOrigH}

\* what the resizer may return: any width (the check after the resize is
\* there for the widths it should not return), samples whose Sobel
\* magnitudes have exact square roots
ResizedImages ==
    {g \in {RegionImage(h, w, r, c, a, b) :
                h \in 1..MaxResizedH, w \in 0..MaxResizedW,
                r \in 0..MaxResizedH, c \in 0..MaxResizedW,
                a \in TemplateLevels, b \in TemplateLevels} :
        ExactRoots(sobelEdge(g, Width(g), Height(g), TemplateSobelThreshold))}

InitTemplate ==
    /\ pc = "start"
    /\ img \in Images
    /\ scale \in Scales
    /\ resized = Idle /\ newWidth = Idle /\ tmpl = Idle /\ err = Idle
    /\ gray_img = Idle /\ sobelThreshold = Idle /\ edge = Idle
    /\ t = Idle /\ image = Idle /\ stride = Idle /\ threshold = Idle
    /\ matches = Idle /\ trace = Idle

CallNewTemplateFromImage ==
    /\ pc = "start"
    /\ \E rz \in ResizedImages :
         LET r == NewTemplateFromImage(img, scale, rz)
         IN  /\ resized' = rz
             /\ newWidth' = r.newWidth
             /\ tmpl' = r.tmpl
             /\ err' = r.err
    /\ pc' = "done"
    /\ UNCHANGED <<gray_img, sobelThreshold, edge, img, scale,
                   t, image, stride, threshold, matches, trace>>

NextTemplate == CallNewTemplateFromImage

SpecTemplate == InitTemplate /\ [][NextTemplate]_vars

-----------------------------------------------------------------------------
(* FindMatch *)

\* What a call did, beside the slice it returns:
\*   evaluated  the window positions <<i, j>> whose body ran, in order
\*   divided    the positions at which the division by denominator ran
\*   emittedAt  for each element of the slice, the position that appended it
\*   reads      the scene cells <<row, column>> read
\*   panicked   an index was out of range (the call returns nothing)
NoTrace == [matches |-> <<>>, evaluated |-> <<>>, divided |-> {},
            emittedAt |-> <<>>, reads |-> {}, panicked |-> FALSE]

InGrid(g, cell) ==
    /\ 0 <= cell[1] /\ cell[1] < Height(g)
    /\ 0 <= cell[2] /\ cell[2] < Len(g[cell[1] + 1])

\* the cells image[i+y][j+x] of the window at (i, j), in loop order
WindowCells(tp, i, j) ==
    [n \in 1..(tp.kernelHeight * tp.kernelWidth) |->
        <<i + ((n - 1) \div tp.kernelWidth), j + ((n - 1) % tp.kernelWidth)>>]

\* t.kernel[y][x] in the same order
KernelCells(tp) ==
    [n \in 1..(tp.kernelHeight * tp.kernelWidth) |->
        At(tp.kernel, (n - 1) \div tp.kernelWidth, (n - 1) % tp.kernelWidth)]

\* normalizedCrop = image[i+y][j+x] - cropMean, cropMean = cropSum / N;
\* held times N
NormalizedCrop(v, N, cropSum) == N * v - cropSum

\* sumProduct, held times N*N (crop and kernel are each held times N)
SumProduct(crop, kern) == SeqSum([n \in 1..Len(crop) |-> crop[n] * kern[n]])

\* sumCropSquared, held times N*N
SumCropSquared(crop) == SeqSum([n \in 1..Len(crop) |-> crop[n] * crop[n]])

\* a slip: >= for >
DenominatorNotNegative(den2) == den2 >= 0

\* denominator > 0, for denominator = sqrt(den2)
DenominatorPositive(den2) == den2 > 0

\* a slip: the squares compared, whatever the signs
CorrSquaredAbove(num, den2, thr) ==
    IF den2 = 0 THEN FALSE
    ELSE (num * thr[2]) * (num * thr[2]) > thr[1] * thr[1] * den2

\* corr > threshold for corr = num / sqrt(den2) and threshold = thr[1]/thr[2]:
\* num * thr[2] > thr[1] * sqrt(den2), decided on the squares.  With a zero
\* denominator corr is NaN, and no comparison with NaN is true.
CorrAbove(num, den2, thr) ==
    IF den2 = 0 THEN FALSE
    ELSE LET a == num * thr[2]
             b == thr[1]
         IN  IF b >= 0 THEN a > 0 /\ a * a > b * b * den2
                       ELSE a >= 0 \/ a * a < b * b * den2

\* a slip: multiplied by the scale
ScaleForward(n, sc) == (n * sc[1]) \div sc[2]

\* int(float64(n) * 1 / scale), for n >= 0 and scale > 0
ScaleBack(n, sc) == (n * sc[2]) \div sc[1]

\* the Match appended for the window at (i, j), of correlation num/sqrt(den2)
MatchAt(tp, sc, i, j, num, den2) ==
    [X |-> ScaleBack(j, sc), Y |-> ScaleBack(i, sc),
     Width |-> tp.originalSize.X, Height |-> tp.originalSize.Y,
     Score |-> [num |-> num, den2 |-> den2]]

\* the body of the two loops, for the window at (i, j)
WindowBody(tp, im, thr, sc, i, j, acc) ==
    LET cells == WindowCells(tp, i, j)
        read == {cells[n] : n \in 1..Len(cells)}
        ran == [acc EXCEPT !.evaluated = Append(@, <<i, j>>), !.reads = @ \cup read]
    IN  IF \E c \in read : ~InGrid(im, c)
        THEN [ran EXCEPT !.panicked = TRUE]
        ELSE LET N == tp.kernelHeight * tp.kernelWidth
                 vals == [n \in 1..Len(cells) |-> At(im, cells[n][1], cells[n][2])]
                 cropSum == SeqSum(vals)
                 crop == [n \in 1..Len(cells) |-> NormalizedCrop(vals[n], N, cropSum)]
                 sumProduct == SumProduct(crop, KernelCells(tp))
                 den2 == SumCropSquared(crop) * tp.sumKernel
             IN  IF DenominatorPositive(den2)
                 THEN LET div == [ran EXCEPT !.divided = @ \cup {<<i, j>>}]
                      IN  IF CorrAbove(sumProduct, den2, thr)
                          THEN [div EXCEPT
                                  !.matches = Append(@, MatchAt(tp, sc, i, j, sumProduct, den2)),
                                  !.emittedAt = Append(@, <<i, j>>)]
                          ELSE div
                 ELSE ran

\* a slip: the template's size is not subtracted
RowInSceneOnly(tp, height, i) == i < height

\* i < height-t.kernelHeight
RowInRange(tp, height, i) == i < height - tp.kernelHeight

\* j < width-t.kernelWidth
ColInRange(tp, width, j) == j < width - tp.kernelWidth

RECURSIVE InnerLoop(_, _, _, _, _, _, _, _, _)
InnerLoop(tp, im, width, st, thr, sc, i, j, acc) ==
    IF acc.panicked \/ ~ColInRange(tp, width, j) THEN acc
    ELSE InnerLoop(tp, im, width, st, thr, sc, i, j + st,
                   WindowBody(tp, im, thr, sc, i, j, acc))

\* a slip: the columns scanned outermost
RECURSIVE ColumnFirstLoop(_, _, _, _, _, _, _, _, _)
ColumnFirstLoop(tp, im, height, width, st, thr, sc, i, acc) ==
    LET RECURSIVE Rows(_, _)
        Rows(r, a) == IF a.panicked \/ ~RowInRange(tp, height, r) THEN a
                      ELSE Rows(r + st, WindowBody(tp, im, thr, sc, r, i, a))
    IN  IF acc.panicked \/ ~ColInRange(tp, width, i) THEN acc
        ELSE ColumnFirstLoop(tp, im, height, width, st, thr, sc, i + st, Rows(0, acc))

RECURSIVE OuterLoop(_, _, _, _, _, _, _, _, _)
OuterLoop(tp, im, height, width, st, thr, sc, i, acc) ==
    IF acc.panicked \/ ~RowInRange(tp, height, i) THEN acc
    ELSE OuterLoop(tp, im, height, width, st, thr, sc, i + st,
                   InnerLoop(tp, im, width, st, thr, sc, i, 0, acc))

\* the call: the slice returned is the field matches of the result
FindMatch(tp, im, st, thr, sc) ==
    LET height == Len(im)
    IN  IF height = 0 THEN NoTrace
        ELSE OuterLoop(tp, im, height, Len(im[1]), st, thr, sc, 0, NoTrace)

-----------------------------------------------------------------------------
(* Inputs of FindMatch *)

MaxSceneH == 5
MaxSceneW == 5
MaxStride == 2

Thresholds == {<<-2, 1>>, <<0, 1>>, <<1, 2>>, <<1, 1>>}

\* Edge magnitudes a template is built from, in units of one magnitude m (a
\* correlation does not change when the kernel is scaled): no interior cell,
\* one interior cell, two equal interior cells.
UnitEdges ==
    { << <<0, 0>>, <<0, 0>> >>,
      << <<0, 0, 0>>, <<0, 1, 0>>, <<0, 0, 0>> >>,
      << <<0, 0, 0, 0>>, <<0, 1, 1, 0>>, <<0, 0, 0, 0>> >> }

\* a scene is a preprocessed grid too: cells at minus the mean but for at
\* one cell, or two side by side or corner to corner, spiked
Cells(h, w) == (0..(h - 1)) \X (0..(w - 1))
SpikeSets(h, w) ==
    {{}} \cup {{a} : a \in Cells(h, w)}
         \cup {{a, <<a[1], a[2] + 1>>} : a \in Cells(h, w - 1)}
         \cup {{a, <<a[1] + 1, a[2] - 1>>} : a \in (0..(h - 2)) \X (1..(w - 1))}
Scene(h, w, spikes) ==
    [yy \in 1..h |-> [xx \in 1..w |->
        IF <<yy - 1, xx - 1>> \in spikes THEN 8 ELSE -1]]
Scenes ==
    UNION {{Scene(h, w, S) : S \in SpikeSets(h, w)} :
              h \in 0..MaxSceneH, w \in 0..MaxSceneW}

\* the template was built by NewTemplateFromImage at the scale the scene is
\* searched at, from an image of original size im: its resized width is
\* NewWidth(im.X, scale)
Init ==
    /\ pc = "start"
    /\ scale \in Scales
    /\ \E e \in UnitEdges :
         /\ img \in {im \in [X : 1..(2 * Width(e)), Y : 1..(2 * Height(e))] :
                        /\ NewWidth(im.X, scale) = Width(e)
                        /\ NewWidth(im.Y, scale) = Height(e)
                        /\ (im.X - 1) * scale[1] < Width(e) * scale[2]
                        /\ (im.Y - 1) * scale[1] < Height(e) * scale[2]}
         /\ t = BuildTemplate(e, Width(e), Height(e), img)
    /\ image \in Scenes
    /\ stride \in 1..MaxStride
    /\ threshold \in Thresholds
    /\ matches = Idle /\ trace = Idle
    /\ resized = Idle /\ newWidth = Idle /\ tmpl = Idle /\ err = Idle
    /\ gray_img = Idle /\ sobelThreshold = Idle /\ edge = Idle

CallFindMatch ==
    /\ pc = "start"
    /\ LET r == FindMatch(t, image, stride, threshold, scale)
       IN  /\ matches' = r.matches
           /\ trace' = r
    /\ pc' = "done"
    /\ UNCHANGED <<gray_img, sobelThreshold, edge, img, scale, resized, newWidth,
                   tmpl, err, t, image, stride, threshold>>

Next == CallFindMatch

Spec == Init /\ [][Next]_vars

-----------------------------------------------------------------------------
(* Claims about FindMatch, checked under Spec *)

Done == pc = "done"

RECURSIVE FnSum(_)
FnSum(f) ==
    IF DOMAIN f = {} THEN 0
    ELSE LET d == CHOOSE d \in DOMAIN f : TRUE
         IN  f[d] + FnSum([e \in (DOMAIN f) \ {d} |-> f[e]])

ToSet(s) == {s[k] : k \in 1..Len(s)}

\* the offsets of a window's cells, and the sums over a window the
\* correlation of the spec is made of
Offsets == (0..(t.kernelHeight - 1)) \X (0..(t.kernelWidth - 1))
CellsN == t.kernelHeight * t.kernelWidth
SumW(p) == FnSum([o \in Offsets |-> At(image, p[1] + o[1], p[2] + o[2])])
SumWW(p) == FnSum([o \in Offsets |->
                At(image, p[1] + o[1], p[2] + o[2]) * At(image, p[1] + o[1], p[2] + o[2])])
SumWK(p) == FnSum([o \in Offsets |->
                At(image, p[1] + o[1], p[2] + o[2]) * At(t.kernel, o[1], o[2])])
SumK == FnSum([o \in Offsets |-> At(t.kernel, o[1], o[2])])
SumKK == FnSum([o \in Offsets |-> At(t.kernel, o[1], o[2]) * At(t.kernel, o[1], o[2])])

\* N*N times sum (w - mean) * k, and N*N times sum (w - mean)^2
SpecSumProduct(p) == CellsN * SumWK(p) - SumW(p) * SumK
SpecSumWindowSquared(p) == CellsN * (CellsN * SumWW(p) - SumW(p) * SumW(p))
SpecDen2(p) == SpecSumWindowSquared(p) * SumKK

\* the window's correlation is above the threshold
SpecCorrAbove(p) ==
    /\ SpecDen2(p) > 0
    /\ LET lhs == SpecSumProduct(p) * threshold[2]
       IN  \/ threshold[1] < 0 /\ lhs >= 0
           \/ threshold[1] < 0 /\ lhs * lhs < threshold[1] * threshold[1] * SpecDen2(p)
           \/ threshold[1] >= 0 /\ lhs > 0
                /\ lhs * lhs > threshold[1] * threshold[1] * SpecDen2(p)

FlatWindow(p) ==
    \A o \in Offsets : At(image, p[1] + o[1], p[2] + o[2]) = At(image, p[1], p[2])

\* the positions of the spec: multiples of stride, both upper bounds inclusive
ValidPositions ==
    {p \in (0..(Height(image) - t.kernelHeight)) \X (0..(Width(image) - t.kernelWidth)) :
        p[1] % stride = 0 /\ p[2] % stride = 0}

\* C1 as stated: the positions evaluated are the multiples of stride with
\* 0 <= i <= sceneHeight - kernelHeight and 0 <= j <= sceneWidth -
\* kernelWidth; a scene of the kernel's dimensions has (0,0) evaluated.
C1_AsStated ==
    Done => ToSet(trace.evaluated) = ValidPositions

\* C2 as stated: a template that is not flat, searched in its own kernel grid
\* with stride 1, scale 1 and a threshold below 0.999, is found at (0,0)
\* with score 1.
C2_AsStated ==
    (/\ Done
     /\ t.sumKernel > 0
     /\ image = t.kernel
     /\ stride = 1 /\ scale = <<1, 1>>
     /\ 1000 * threshold[1] < 999 * threshold[2])
    => \E k \in 1..Len(matches) :
          /\ matches[k].X = 0 /\ matches[k].Y = 0
          /\ matches[k].Score.num > 0
          /\ matches[k].Score.num * matches[k].Score.num = matches[k].Score.den2

\* C3: whatever the threshold, no Match is appended and no division is done
\* for a window whose denominator is zero (a flat window, or a template with
\* sumKernel = 0), and the call does not fail.
C3_DegenerateWindowSkipped ==
    Done =>
        /\ ~trace.panicked
        /\ \A p \in ToSet(trace.evaluated) :
              (FlatWindow(p) \/ t.sumKernel = 0 \/ SpecDen2(p) = 0) =>
                  /\ p \notin ToSet(trace.emittedAt)
                  /\ p \notin trace.divided

\* a flat window was evaluated under a negative threshold, beside a window
\* that matched
C3_Witness ==
    /\ Done
    /\ threshold[1] < 0
    /\ t.sumKernel > 0
    /\ \E p \in ToSet(trace.evaluated) : FlatWindow(p) /\ At(image, p[1], p[2]) # 0
    /\ matches # <<>>

RasterBefore(p, q) == p[1] < q[1] \/ (p[1] = q[1] /\ p[2] < q[2])

\* C4: the slice returned has one Match for each evaluated position whose
\* correlation is above the threshold and none for another, overlapping
\* windows included, in raster order of the positions.
C4_OutputSequence ==
    Done =>
        /\ Len(matches) = Len(trace.emittedAt)
        /\ ToSet(trace.emittedAt) = {p \in ToSet(trace.evaluated) : SpecCorrAbove(p)}
        /\ \A k \in 1..(Len(matches) - 1) :
              RasterBefore(trace.emittedAt[k], trace.emittedAt[k + 1])
        /\ \A k \in 1..Len(matches) :
              /\ matches[k].X = ScaleBack(trace.emittedAt[k][2], scale)
              /\ matches[k].Y = ScaleBack(trace.emittedAt[k][1], scale)

\* overlapping windows of two rows and two columns matched, and another
\* evaluated window did not
C4_Witness ==
    /\ Done
    /\ Len(matches) >= 2
    /\ Len(matches) < Len(trace.evaluated)
    /\ \E k \in 1..Len(matches) : \E l \in 1..Len(matches) :
          /\ trace.emittedAt[k][1] < trace.emittedAt[l][1]
          /\ trace.emittedAt[k][2] > trace.emittedAt[l][2]

FracLess(a, b) == a[1] * b[2] < b[1] * a[2]

\* C5: every Match returned at a higher threshold is returned at this one.
C5_ThresholdMonotone ==
    Done => \A th2 \in Thresholds :
        FracLess(threshold, th2) =>
            ToSet(FindMatch(t, image, stride, th2, scale).matches) \subseteq ToSet(matches)

\* a higher threshold keeps some matches and drops others
C5_Witness ==
    /\ Done
    /\ \E th2 \in Thresholds :
          /\ FracLess(threshold, th2)
          /\ FindMatch(t, image, stride, th2, scale).matches # <<>>
          /\ Len(FindMatch(t, image, stride, th2, scale).matches) < Len(matches)

\* n is x / scale with its fraction dropped
IsScaledBack(n, x, sc) == n * sc[1] <= x * sc[2] /\ x * sc[2] < (n + 1) * sc[1]

\* C6: the Match of the window at (i,j) has X = j / scale and Y = i / scale
\* as integers, the width and height of the image the template was built
\* from, before the resize, and the window's correlation as its score.
C6_MatchFields ==
    Done => \A k \in 1..Len(matches) :
        LET p == trace.emittedAt[k]
        IN  /\ IsScaledBack(matches[k].X, p[2], scale)
            /\ IsScaledBack(matches[k].Y, p[1], scale)
            /\ matches[k].Width = img.X /\ matches[k].Height = img.Y
            /\ matches[k].Score.num = SpecSumProduct(p)
            /\ matches[k].Score.den2 = SpecDen2(p)

\* a match off the origin, at a scale that moves it, for a template whose
\* kernel is smaller than the image it was built from
C6_Witness ==
    /\ Done
    /\ img.X # t.kernelWidth /\ img.Y # t.kernelHeight
    /\ \E k \in 1..Len(matches) :
          /\ trace.emittedAt[k][1] > 0 /\ trace.emittedAt[k][2] > 0
          /\ matches[k].X # trace.emittedAt[k][2]
          /\ matches[k].Y # trace.emittedAt[k][1]

SceneTooSmall ==
    \/ Height(image) = 0
    \/ Height(image) < t.kernelHeight
    \/ Width(image) < t.kernelWidth

\* C7: a scene with no rows, or shorter or narrower than the kernel, gives
\* an empty slice, with no failure and no scene cell read; and no call reads
\* a cell outside the scene.
C7_MalformedSceneEmpty ==
    Done =>
        /\ \A c \in trace.reads : InGrid(image, c)
        /\ SceneTooSmall => (matches = <<>> /\ ~trace.panicked /\ trace.reads = {})

\* a scene tall enough and too narrow
C7_Witness ==
    /\ Done
    /\ Height(image) > t.kernelHeight
    /\ Width(image) > 0 /\ Width(image) < t.kernelWidth
    /\ matches = <<>>

-----------------------------------------------------------------------------
(* Claims about sobelEdge, checked under SpecSobel *)

SobelDone == pc = "done"

\* the gradient sums written out from the two 3x3 kernels of the spec
SpecSx(g, y, x) ==
      (At(g, y - 1, x + 1) + 2 * At(g, y, x + 1) + At(g, y + 1, x + 1))
    - (At(g, y - 1, x - 1) + 2 * At(g, y, x - 1) + At(g, y + 1, x - 1))
SpecSy(g, y, x) ==
      (At(g, y + 1, x - 1) + 2 * At(g, y + 1, x) + At(g, y + 1, x + 1))
    - (At(g, y - 1, x - 1) + 2 * At(g, y - 1, x) + At(g, y - 1, x + 1))
SpecMagSq(g, y, x) == SpecSx(g, y, x) * SpecSx(g, y, x) + SpecSy(g, y, x) * SpecSy(g, y, x)

\* sqrt(m) < thr, for an integer thr
MagnitudeBelow(m, thr) == thr > 0 /\ m < thr * thr

OnRing(g, y, x) ==
    y = 0 \/ x = 0 \/ y = Height(g) - 1 \/ x = Width(g) - 1

SobelShapeAndValues ==
    SobelDone =>
        /\ Height(edge) = Height(gray_img)
        /\ \A yy \in 1..Height(edge) : Len(edge[yy]) = Width(gray_img)
        /\ \A y \in 0..(Height(gray_img) - 1) : \A x \in 0..(Width(gray_img) - 1) :
              /\ At(edge, y, x) >= 0
              /\ OnRing(gray_img, y, x) => At(edge, y, x) = 0
              /\ ~OnRing(gray_img, y, x) =>
                    At(edge, y, x) =
                        IF MagnitudeBelow(SpecMagSq(gray_img, y, x), sobelThreshold)
                        THEN 0 ELSE SpecMagSq(gray_img, y, x)

\* C10: sobelEdge returns a grid of the input's dimensions whose outermost
\* ring is 0 and whose interior cells are 0 where the gradient magnitude
\* sqrt(sx^2 + sy^2) is below the threshold and that magnitude otherwise
\* (cells hold the magnitude squared); no cell is negative and the call
\* leaves the input grid as it was.
C10_SobelShapeAndValues ==
    [](SobelShapeAndValues) /\ [][gray_img' = gray_img]_vars

\* an interior cell at the threshold exactly, one below it and one on the ring
C10_Witness ==
    /\ SobelDone
    /\ sobelThreshold > 0
    /\ \E y \in 1..(Height(gray_img) - 2) : \E x \in 1..(Width(gray_img) - 2) :
          /\ SpecMagSq(gray_img, y, x) = sobelThreshold * sobelThreshold
          /\ At(edge, y, x) = SpecMagSq(gray_img, y, x)
    /\ \E y \in 1..(Height(gray_img) - 2) : \E x \in 1..(Width(gray_img) - 2) :
          /\ SpecMagSq(gray_img, y, x) > 0
          /\ At(edge, y, x) = 0

\* the grid is a vertical edge before column c: columns 0..c-1 at one level,
\* columns c.. at another
VerticalEdgeAt(g, c) ==
    /\ Height(g) >= 3 /\ Width(g) >= 3
    /\ 0 < c /\ c < Width(g)
    /\ At(g, 0, 0) # At(g, 0, Width(g) - 1)
    /\ \A y \in 0..(Height(g) - 1) : \A x \in 0..(Width(g) - 1) :
          At(g, y, x) = IF x < c THEN At(g, 0, 0) ELSE At(g, 0, Width(g) - 1)

Contrast(g) == Abs(At(g, 0, 0) - At(g, 0, Width(g) - 1))

AllZero(e) ==
    \A y \in 0..(Height(e) - 1) : \A x \in 0..(Width(e) - 1) : At(e, y, x) = 0

\* nonzero at the interior cells of the two columns that touch the edge, zero
\* in every column whose 3x3 blocks are uniform
SharpEdgeShown(c) ==
    \A y \in 0..(Height(edge) - 1) : \A x \in 0..(Width(edge) - 1) :
        /\ (x \in {c - 1, c} /\ ~OnRing(gray_img, y, x)) => At(edge, y, x) # 0
        /\ x \notin {c - 1, c} => At(edge, y, x) = 0

\* C9 as stated: a vertical edge of contrast above the threshold shows along
\* the edge and nowhere on the uniform regions, and one whose intensity
\* difference is below the threshold gives an all-zero grid.
C9_AsStated ==
    SobelDone => \A c \in 1..MaxSobelW :
        VerticalEdgeAt(gray_img, c) =>
            /\ Contrast(gray_img) > sobelThreshold => SharpEdgeShown(c)
            /\ Contrast(gray_img) < sobelThreshold => AllZero(edge)

\* C9: a vertical edge of contrast above the threshold shows along the edge
\* and nowhere on the uniform regions, and one whose gradient magnitude,
\* 4 times the intensity difference, is below the threshold gives an
\* all-zero grid.
C9_SobelSyntheticEdge ==
    SobelDone => \A c \in 1..MaxSobelW :
        VerticalEdgeAt(gray_img, c) =>
            /\ Contrast(gray_img) > sobelThreshold => SharpEdgeShown(c)
            /\ 4 * Contrast(gray_img) < sobelThreshold => AllZero(edge)

\* a low-contrast vertical edge, zeroed, with an interior cell beside it
C9_Witness ==
    /\ SobelDone
    /\ \E c \in 1..MaxSobelW :
          /\ VerticalEdgeAt(gray_img, c)
          /\ Contrast(gray_img) > 0
          /\ 4 * Contrast(gray_img) < sobelThreshold
          /\ c \in 1..(Width(gray_img) - 2)
    /\ AllZero(edge)

-----------------------------------------------------------------------------
(* Claims about NewTemplateFromImage, checked under SpecTemplate *)

TemplateDone == pc = "done"

\* n is x rounded to the nearest integer, x = X * scale (halves go up)
IsRoundOf(n, X, sc) ==
    /\ 2 * n * sc[2] <= 2 * X * sc[1] + sc[2]
    /\ 2 * X * sc[1] + sc[2] < 2 * (n + 1) * sc[2]

\* n is x with its fraction dropped, x = X * scale >= 0
IsTruncationOf(n, X, sc) ==
    /\ n * sc[2] <= X * sc[1]
    /\ X * sc[1] < (n + 1) * sc[2]

\* a mismatch of the resized width is an error and no template; a match,
\* a template of that width and no error
WidthChecked ==
    /\ Width(resized) # newWidth => (err # "" /\ tmpl = <<>>)
    /\ Width(resized) = newWidth =>
          /\ err = "" /\ Len(tmpl) = 1
          /\ tmpl[1].kernelWidth = newWidth
          /\ tmpl[1].kernelHeight = Height(resized)

\* C8 as stated: the width asked of the resizer is round(originalWidth *
\* scale), and a resized image of another width is an error and no template.
C8_AsStated ==
    TemplateDone => (IsRoundOf(newWidth, img.X, scale) /\ WidthChecked)

\* C8: the width asked of the resizer is originalWidth * scale with its
\* fraction dropped, and a resized image of another width is an error and
\* no template.
C8_ResizePostcondition ==
    TemplateDone => (IsTruncationOf(newWidth, img.X, scale) /\ WidthChecked)

\* the product has a fraction of a half or more, and the resizer returned
\* the rounded width, not the one asked for
C8_Witness ==
    /\ TemplateDone
    /\ ~IsRoundOf(newWidth, img.X, scale)
    /\ IsRoundOf(Width(resized), img.X, scale)
    /\ err # "" /\ tmpl = <<>>

====
